---- MODULE Spec2Model ----
(***************************************************************************)
(* flimzy/testify: the assert and require facades over the equivalence     *)
(* checks DeepEqual, DeepEqualJSON, MarshalsToJSON, LinesEqual, HTMLEqual.  *)
(*                                                                         *)
(* The sources hold three revisions of package assert and of package       *)
(* require.  They are modelled side by side, selected by the variable rev: *)
(*   rev 1  src/assert/assert.go   + src/unnamed/part_003 (lines 74-113)   *)
(*   rev 2  src/unnamed/part_001   + src/unnamed/part_003 (lines 1-72)     *)
(*   rev 3  src/unnamed/part_000   + src/unnamed/part_002                  *)
(*                                                                         *)
(* A text (Go string / []byte) is a sequence of atoms; the atom "\n" is    *)
(* the line terminator.  The empty sequence is the empty string.           *)
(***************************************************************************)
EXTENDS Integers, Sequences, FiniteSets, TLC

\* ------------------------------------------------------------------ bounds
MaxLen == 3
MaxInt == 2

\* ------------------------------------------------------- program constants
\* difflib.UnifiedDiff{Context: 2}
Context == 2

\* ------------------------------------------------------------------- texts
Chars == {"a", "b", "\n"}

RECURSIVE SeqsUpTo(_, _)
SeqsUpTo(S, n) ==
    IF n = 0 THEN {<<>>}
    ELSE LET shorter == SeqsUpTo(S, n - 1)
         IN  shorter \cup {Append(s, c) : s \in shorter, c \in S}

Texts == SeqsUpTo(Chars, MaxLen)

Max(x, y) == IF x > y THEN x ELSE y
Min(x, y) == IF x < y THEN x ELSE y

RECURSIVE Flatten(_)
Flatten(ss) == IF ss = <<>> THEN <<>> ELSE Head(ss) \o Flatten(Tail(ss))

\* strings.HasSuffix(s, "\n")
HasSuffix(s) == Len(s) > 0 /\ s[Len(s)] = "\n"

\* strings.SplitAfter(s, "\n"): the pieces of s, each ending after a "\n";
\* the last piece is what follows the last "\n" (empty when s ends in one).
RECURSIVE SplitAfterFrom(_, _, _)
SplitAfterFrom(s, i, cur) ==
    IF i > Len(s) THEN <<cur>>
    ELSE IF s[i] = "\n" THEN <<Append(cur, "\n")>> \o SplitAfterFrom(s, i + 1, <<>>)
    ELSE SplitAfterFrom(s, i + 1, Append(cur, s[i]))

SplitAfter(s) == SplitAfterFrom(s, 1, <<>>)

\* ----------------------------------------------------------------- difflib
\* Slices are half-open with 0-based bounds as in Go: A[i1:i2] is
\* SubSeq(A, i1 + 1, i2).
Slice(A, i1, i2) == SubSeq(A, i1 + 1, i2)

\* SequenceMatcher.FindLongestMatch without junk: the longest block
\* A[i:i+k] = B[j:j+k] inside A[alo:ahi], B[blo:bhi]; of the longest, the one
\* starting earliest in A, and of those the one starting earliest in B.
Blocks(A, B, alo, ahi, blo, bhi) ==
    {m \in [i : alo..(ahi - 1), j : blo..(bhi - 1), k : 1..Min(ahi - alo, bhi - blo)] :
        /\ m.i + m.k <= ahi
        /\ m.j + m.k <= bhi
        /\ Slice(A, m.i, m.i + m.k) = Slice(B, m.j, m.j + m.k)}

Longest(bs, alo, blo) ==
    IF bs = {} THEN [i |-> alo, j |-> blo, k |-> 0]
    ELSE CHOOSE m \in bs :
            \A o \in bs :
                \/ m.k > o.k
                \/ m.k = o.k /\ m.i < o.i
                \/ m.k = o.k /\ m.i = o.i /\ m.j <= o.j

FindLongestMatch(A, B, alo, ahi, blo, bhi) ==
    Longest(Blocks(A, B, alo, ahi, blo, bhi), alo, blo)

\* SequenceMatcher.GetMatchingBlocks: the longest match, then recursively the
\* matches to its left and to its right, in order, closed by the sentinel
\* (len(A), len(B), 0).
RECURSIVE MatchingIn(_, _, _, _, _, _)
RECURSIVE MatchingAround(_, _, _, _, _, _, _)
MatchingAround(A, B, alo, ahi, blo, bhi, m) ==
    IF m.k = 0 THEN <<>>
    ELSE (IF alo < m.i /\ blo < m.j
             THEN MatchingIn(A, B, alo, m.i, blo, m.j) ELSE <<>>)
         \o <<m>>
         \o (IF m.i + m.k < ahi /\ m.j + m.k < bhi
             THEN MatchingIn(A, B, m.i + m.k, ahi, m.j + m.k, bhi) ELSE <<>>)

MatchingIn(A, B, alo, ahi, blo, bhi) ==
    MatchingAround(A, B, alo, ahi, blo, bhi, FindLongestMatch(A, B, alo, ahi, blo, bhi))

\* adjacent blocks are merged
RECURSIVE MergeAdjacent(_)
MergeAdjacent(bs) ==
    IF Len(bs) < 2 THEN bs
    ELSE LET x == bs[1]
             y == bs[2]
         IN  IF x.i + x.k = y.i /\ x.j + x.k = y.j
             THEN MergeAdjacent(<<[i |-> x.i, j |-> x.j, k |-> x.k + y.k]>>
                                \o SubSeq(bs, 3, Len(bs)))
             ELSE <<x>> \o MergeAdjacent(Tail(bs))

GetMatchingBlocks(A, B) ==
    Append(MergeAdjacent(MatchingIn(A, B, 0, Len(A), 0, Len(B))),
           [i |-> Len(A), j |-> Len(B), k |-> 0])

\* SequenceMatcher.GetOpCodes: tag is "r" replace, "d" delete, "i" insert,
\* "e" equal; A[i1:i2] is turned into B[j1:j2].
OpCode(tag, i1, i2, j1, j2) == [tag |-> tag, i1 |-> i1, i2 |-> i2, j1 |-> j1, j2 |-> j2]

RECURSIVE OpCodesFrom(_, _, _)
OpCodesFrom(bs, i, j) ==
    IF bs = <<>> THEN <<>>
    ELSE LET b == Head(bs)
             tag == IF i < b.i /\ j < b.j THEN "r"
                    ELSE IF i < b.i THEN "d"
                    ELSE IF j < b.j THEN "i"
                    ELSE ""
         IN  (IF tag # "" THEN <<OpCode(tag, i, b.i, j, b.j)>> ELSE <<>>)
             \o (IF b.k > 0 THEN <<OpCode("e", b.i, b.i + b.k, b.j, b.j + b.k)>> ELSE <<>>)
             \o OpCodesFrom(Tail(bs), b.i + b.k, b.j + b.k)

GetOpCodes(A, B) == OpCodesFrom(GetMatchingBlocks(A, B), 0, 0)

\* SequenceMatcher.GetGroupedOpCodes(n): leading and trailing equal runs are
\* cut to n lines, a long equal run inside splits the group, and a group that
\* is one equal run is dropped.
TrimFirst(codes, n) ==
    IF codes[1].tag = "e"
    THEN LET c == codes[1]
         IN  <<OpCode("e", Max(c.i1, c.i2 - n), c.i2, Max(c.j1, c.j2 - n), c.j2)>>
             \o Tail(codes)
    ELSE codes

TrimLast(codes, n) ==
    LET last == Len(codes)
    IN  IF codes[last].tag = "e"
        THEN LET c == codes[last]
             IN  SubSeq(codes, 1, last - 1)
                 \o <<OpCode("e", c.i1, Min(c.i2, c.i1 + n), c.j1, Min(c.j2, c.j1 + n))>>
        ELSE codes

RECURSIVE GroupFrom(_, _, _)
GroupFrom(codes, group, n) ==
    IF codes = <<>>
    THEN IF Len(group) > 0 /\ ~(Len(group) = 1 /\ group[1].tag = "e")
         THEN <<group>> ELSE <<>>
    ELSE LET c == Head(codes)
         IN  IF c.tag = "e" /\ c.i2 - c.i1 > n + n
             THEN <<Append(group, OpCode("e", c.i1, Min(c.i2, c.i1 + n),
                                              c.j1, Min(c.j2, c.j1 + n)))>>
                  \o GroupFrom(Tail(codes),
                               <<OpCode("e", Max(c.i1, c.i2 - n), c.i2,
                                             Max(c.j1, c.j2 - n), c.j2)>>, n)
             ELSE GroupFrom(Tail(codes), Append(group, c), n)

OrOneEqual(codes) == IF codes = <<>> THEN <<OpCode("e", 0, 1, 0, 1)>> ELSE codes

GetGroupedOpCodes(A, B, n) ==
    GroupFrom(TrimLast(TrimFirst(OrOneEqual(GetOpCodes(A, B)), n), n), <<>>, n)

\* formatRangeUnified(start, stop)
FormatRangeUnified(start, stop) ==
    LET length == stop - start
    IN  IF length = 1 THEN <<ToString(start + 1)>>
        ELSE <<ToString(IF length = 0 THEN start ELSE start + 1), ",", ToString(length)>>

\* the lines WriteUnifiedDiff writes for one opcode: " " before an equal line,
\* "-" before a line of A that goes, "+" before a line of B that comes
RECURSIVE Prefixed(_, _)
Prefixed(p, lines) ==
    IF lines = <<>> THEN <<>> ELSE <<<<p>> \o Head(lines)>> \o Prefixed(p, Tail(lines))

OpLines(A, B, c) ==
    IF c.tag = "e" THEN Prefixed(" ", Slice(A, c.i1, c.i2))
    ELSE (IF c.tag \in {"r", "d"} THEN Prefixed("-", Slice(A, c.i1, c.i2)) ELSE <<>>)
         \o (IF c.tag \in {"r", "i"} THEN Prefixed("+", Slice(B, c.j1, c.j2)) ELSE <<>>)

RECURSIVE GroupLines(_, _, _)
GroupLines(A, B, g) ==
    IF g = <<>> THEN <<>> ELSE OpLines(A, B, Head(g)) \o GroupLines(A, B, Tail(g))

HunkLines(A, B, g) ==
    LET first == g[1]
        last == g[Len(g)]
    IN  << <<"@@ -">> \o FormatRangeUnified(first.i1, last.i2) \o <<" +">>
           \o FormatRangeUnified(first.j1, last.j2) \o <<" @@", "\n">> >>
        \o GroupLines(A, B, g)

RECURSIVE HunksLines(_, _, _)
HunksLines(A, B, gs) ==
    IF gs = <<>> THEN <<>> ELSE HunkLines(A, B, Head(gs)) \o HunksLines(A, B, Tail(gs))

\* difflib.GetUnifiedDiffString(UnifiedDiff{A, FromFile: "expected", B,
\* ToFile: "actual", Context: 2}), as its lines: nothing when there is no
\* group, else the two file lines and every hunk.
WriteUnifiedDiff(A, B, gs) ==
    IF gs = <<>> THEN <<>>
    ELSE << <<"--- expected", "\n">>, <<"+++ actual", "\n">> >> \o HunksLines(A, B, gs)

GetUnifiedDiffString(A, B) ==
    Flatten(WriteUnifiedDiff(A, B, GetGroupedOpCodes(A, B, Context)))

\* normalized as it would be if the texts were split as they are in every
\* revision; the terminator property of diff is told apart from it
unnormalized(r, s) == s

\* diff: part_000 appends a "\n" to a text that does not end in one; part_001
\* and assert.go split the texts as they are.
normalized(r, s) == IF r = 3 /\ ~HasSuffix(s) THEN Append(s, "\n") ELSE s

diff(r, expected, actual) ==
    GetUnifiedDiffString(SplitAfter(normalized(r, expected)),
                         SplitAfter(normalized(r, actual)))

\* ------------------------------------------------------------------ values
\* A Go value (interface{}) is a record of one shape:
\*   kind  "nil" (the nil interface), "int", "float", "nan" (the float64 NaN),
\*         "func" (a non-nil func()), "chan", "ptr", "map"
\*         (map[string]interface{}), "struct", "entry" (one key of a map),
\*         "slice" (a non-nil []int)
\*   n     the number of an int or float, the capacity of a slice
\*   s     the key of an entry, the type name of a struct
\*   addr  the address of a func, chan, pointer target or map object
\*   kids  the entries of a map in insertion order, the value of an entry, the
\*         fields of a struct in declaration order, the elements of a slice
Val(kind, n, s, addr, kids) == [kind |-> kind, n |-> n, s |-> s, addr |-> addr, kids |-> kids]

Nil == Val("nil", 0, "", 0, <<>>)
IntVal(n) == Val("int", n, "", 0, <<>>)
FloatVal(n) == Val("float", n, "", 0, <<>>)
NaN == Val("nan", 0, "", 0, <<>>)
Func(a) == Val("func", 0, "", a, <<>>)
Chan(a) == Val("chan", 0, "", a, <<>>)
Ptr(a) == Val("ptr", 0, "", a, <<>>)
Entry(k, v) == Val("entry", 0, k, 0, <<v>>)
Map(a, entries) == Val("map", 0, "", a, entries)
Struct(name, fields) == Val("struct", 0, name, 0, fields)
SliceVal(a, cap, elems) == Val("slice", cap, "", a, elems)

\* The heap the pointers of the test values point into:
\*   1, 2  two int cells holding 1        3  an int cell holding 2
\*   4, 5  two cells of type Node struct{ Next *Node }, each its own successor
\*   6     a float64 cell holding NaN
HeapAddrs == 1..6

Heap(a) ==
    CASE a \in {1, 2} -> IntVal(1)
      [] a = 3 -> IntVal(2)
      [] a \in {4, 5} -> Struct("Node", <<Ptr(a)>>)
      [] a = 6 -> NaN

\* reflect.Type, as a name
RECURSIVE TypeOf(_)
TypeOf(v) ==
    CASE v.kind = "nil" -> "nil"
      [] v.kind = "int" -> "int"
      [] v.kind \in {"float", "nan"} -> "float64"
      [] v.kind = "func" -> "func()"
      [] v.kind = "chan" -> "chan int"
      [] v.kind = "ptr" -> IF v.addr \in {4, 5} THEN "*Node"
                           ELSE IF v.addr = 6 THEN "*float64" ELSE "*int"
      [] v.kind = "map" -> "map[string]interface {}"
      [] v.kind = "struct" -> v.s
      [] v.kind = "slice" -> "[]int"

HasKey(m, k) == \E x \in 1..Len(m.kids) : m.kids[x].s = k
MapIndex(m, k) == m.kids[CHOOSE x \in 1..Len(m.kids) : m.kids[x].s = k].kids[1]

\* reflect.deepValueEqual(v1, v2, visited) for two values of one type.  A
\* pair of pointers or maps met again while it is being compared is equal;
\* pointers and maps that are the same object are equal without a look
\* inside; a field or map element is an interface (nil, or a value with its
\* type), except Node.Next, a *Node.
RECURSIVE deepValueEqual(_, _, _)
RECURSIVE deepElemEqual(_, _, _)
deepElemEqual(x, y, visited) ==
    IF x.kind = "nil" \/ y.kind = "nil" THEN x.kind = y.kind
    ELSE IF TypeOf(x) # TypeOf(y) THEN FALSE
    ELSE deepValueEqual(x, y, visited)

deepValueEqual(v1, v2, visited) ==
    IF v1.kind \in {"ptr", "map", "slice"} /\ <<v1.addr, v2.addr>> \in visited THEN TRUE
    ELSE
    LET seen == IF v1.kind \in {"ptr", "map", "slice"}
                THEN visited \cup {<<v1.addr, v2.addr>>} ELSE visited
    IN  CASE v1.kind = "ptr" ->
               \/ v1.addr = v2.addr
               \/ deepValueEqual(Heap(v1.addr), Heap(v2.addr), seen)
          [] v1.kind = "map" ->
               /\ Len(v1.kids) = Len(v2.kids)
               /\ \/ v1.addr = v2.addr
                  \/ \A x \in 1..Len(v1.kids) :
                        /\ HasKey(v2, v1.kids[x].s)
                        /\ deepElemEqual(v1.kids[x].kids[1], MapIndex(v2, v1.kids[x].s), seen)
          [] v1.kind = "struct" ->
               \A x \in 1..Len(v1.kids) :
                  IF v1.s = "Node" THEN deepValueEqual(v1.kids[x], v2.kids[x], seen)
                  ELSE deepElemEqual(v1.kids[x], v2.kids[x], seen)
          [] v1.kind = "slice" ->
               /\ Len(v1.kids) = Len(v2.kids)
               /\ \/ v1.addr = v2.addr
                  \/ \A x \in 1..Len(v1.kids) : deepValueEqual(v1.kids[x], v2.kids[x], seen)
          [] v1.kind = "func" -> FALSE
          [] v1.kind = "nan" \/ v2.kind = "nan" -> FALSE
          [] v1.kind = "chan" -> v1.addr = v2.addr
          [] OTHER -> v1.n = v2.n

\* an equality that compares the representations (addresses and insertion
\* order included) instead of walking the values; the properties of
\* DeepEqual are told apart from it
sameRepresentation(x, y) == x = y

\* reflect.DeepEqual(x, y)
reflectDeepEqual(x, y) ==
    IF x.kind = "nil" \/ y.kind = "nil" THEN x.kind = y.kind
    ELSE IF TypeOf(x) # TypeOf(y) THEN FALSE
    ELSE deepValueEqual(x, y, {})

\* ------------------------------------------------------------- spew.Sdump
\* the keys a map may hold, in sorted order
Keys == <<"a", "b">>

\* an address as spew and fmt print it after "0x": ten hex digits
HexDigits(a) == <<"c00001400", ToString(a)>>

Indent(depth) == [x \in 1..depth |-> "  "]

FieldName(name, x) ==
    IF name = "Node" THEN "Next: "
    ELSE IF (x = 1) = (name = "Pair") THEN "A: " ELSE "B: "

\* the entries of map m in the order of their keys (SortKeys: true)
RECURSIVE SortedFrom(_, _)
SortedFrom(m, x) ==
    IF x > Len(Keys) THEN <<>>
    ELSE (IF HasKey(m, Keys[x]) THEN <<Entry(Keys[x], MapIndex(m, Keys[x]))>> ELSE <<>>)
         \o SortedFrom(m, x + 1)

SortedEntries(m) == SortedFrom(m, 1)

\* ConfigState{Indent: "  ", DisableMethods: true, SortKeys: true}: the dump
\* of v at a depth, without its type when typed is FALSE (the target of a
\* pointer); shown holds the pointers being dumped around v.
RECURSIVE dump(_, _, _, _)
RECURSIVE dumpItems(_, _, _, _, _)
dumpItems(v, x, items, depth, shown) ==
    IF x > Len(items) THEN <<>>
    ELSE Indent(depth + 1)
         \o (IF v.kind = "map"
             THEN <<"(string) (len=1) ", "\"", items[x].s, "\"", ": ">>
                  \o dump(items[x].kids[1], TRUE, depth + 1, shown)
             ELSE IF v.kind = "slice" THEN dump(items[x], TRUE, depth + 1, shown)
             ELSE <<FieldName(v.s, x)>> \o dump(items[x], TRUE, depth + 1, shown))
         \o (IF x < Len(items) THEN <<",">> ELSE <<>>)
         \o <<"\n">>
         \o dumpItems(v, x + 1, items, depth, shown)

dump(v, typed, depth, shown) ==
    (IF ~typed \/ v.kind = "ptr" THEN <<>>
     ELSE IF v.kind = "nil" THEN <<"(interface {}) ">>
     ELSE <<"(", TypeOf(v), ") ">>)
    \o CASE v.kind = "nil" -> <<"<nil>">>
         [] v.kind \in {"int", "float"} -> <<ToString(v.n)>>
         [] v.kind = "nan" -> <<"NaN">>
         [] v.kind \in {"func", "chan"} -> <<"0x">> \o HexDigits(v.addr)
         [] v.kind = "ptr" ->
              <<"(", TypeOf(v), ")", "(", "0x">> \o HexDigits(v.addr) \o <<")", "(">>
              \o (IF v.addr \in shown THEN <<"<already shown>">>
                  ELSE dump(Heap(v.addr), FALSE, depth, shown \cup {v.addr}))
              \o <<")">>
         [] v.kind = "map" ->
              (IF Len(v.kids) > 0 THEN <<"(len=", ToString(Len(v.kids)), ") ">> ELSE <<>>)
              \o <<"{", "\n">> \o dumpItems(v, 1, SortedEntries(v), depth, shown)
              \o Indent(depth) \o <<"}">>
         [] v.kind = "struct" ->
              <<"{", "\n">> \o dumpItems(v, 1, v.kids, depth, shown)
              \o Indent(depth) \o <<"}">>
         [] v.kind = "slice" ->
              (IF Len(v.kids) # 0 \/ v.n # 0
               THEN <<"(">>
                    \o (IF Len(v.kids) # 0 THEN <<"len=", ToString(Len(v.kids))>> ELSE <<>>)
                    \o (IF v.n # 0
                        THEN (IF Len(v.kids) # 0 THEN <<" ">> ELSE <<>>)
                             \o <<"cap=", ToString(v.n)>>
                        ELSE <<>>)
                    \o <<")", " ">>
               ELSE <<>>)
              \o <<"{", "\n">> \o dumpItems(v, 1, v.kids, depth, shown)
              \o Indent(depth) \o <<"}">>

Sdump(v) == dump(v, TRUE, 0, {}) \o <<"\n">>

\* addRE.ReplaceAllString(s, addRepl): every "(0x" + 6 to 10 hex digits + ")"
\* becomes "(0xXXXXXXXXXX)".  HexDigits writes ten digits in two atoms.
RECURSIVE addReplace(_)
addReplace(s) ==
    IF s = <<>> THEN <<>>
    ELSE IF /\ Len(s) >= 5
            /\ s[1] = "(" /\ s[2] = "0x" /\ s[3] = "c00001400" /\ s[5] = ")"
         THEN <<"(0xXXXXXXXXXX)">> \o addReplace(SubSeq(s, 6, Len(s)))
         ELSE <<Head(s)>> \o addReplace(Tail(s))

\* capRE.ReplaceAllString(s, capRepl): every "cap=" + digits + ")" becomes
\* "cap=X"
RECURSIVE capReplace(_)
capReplace(s) ==
    IF s = <<>> THEN <<>>
    ELSE IF Len(s) >= 3 /\ s[1] = "cap=" /\ s[3] = ")"
         THEN <<"cap=X">> \o capReplace(SubSeq(s, 4, Len(s)))
         ELSE <<Head(s)>> \o capReplace(Tail(s))

\* interfaceDiff: the regular expressions are applied in assert.go and
\* part_001, capRE before addRE, and commented out in part_000.
masked(r, s) == IF r = 3 THEN s ELSE addReplace(capReplace(s))

interfaceDiff(r, expected, actual) ==
    diff(r, masked(r, Sdump(expected)), masked(r, Sdump(actual)))

\* ----------------------------------------------------------- encoding/json
\* A JSON text is a sequence of the atoms "{", "}", ":", ",", "null", a
\* number, a key with its quotes, and the white space " ", "\n" and "    ".
JSONSpace == {" ", "\n", "    "}
JSONKey(k) == IF k = "a" THEN "\"a\"" ELSE IF k = "b" THEN "\"b\""
              ELSE IF k = "A" THEN "\"A\"" ELSE "\"B\""
JSONKeys == {"\"a\"", "\"b\"", "\"A\"", "\"B\""}
KeyOf(atom) == CHOOSE k \in {"a", "b", "A", "B"} : JSONKey(k) = atom
Numbers == 0..(MaxInt + 1)
JSONNumbers == {ToString(n) : n \in Numbers}
NumberOf(atom) == CHOOSE n \in Numbers : ToString(n) = atom

JSONIndent(depth) == [x \in 1..depth |-> "    "]

\* json.MarshalIndent(i, "", "    "): [err, out].  err is the error text,
\* empty when there is none; out is nil (empty) when there is an error.
\* A func, a chan and NaN cannot be encoded; a pointer encodes as its target,
\* a map with its keys sorted, a struct with its exported fields in order.
JSONError(v) == <<"json: unsupported ", IF v.kind = "nan" THEN "value: NaN" ELSE TypeOf(v)>>

\* the values an object is encoded from: the elements of a map in the order
\* of their keys, the fields of a struct
ValuesOf(entries) == [x \in 1..Len(entries) |-> entries[x].kids[1]]
Elems(v) == IF v.kind = "map" THEN ValuesOf(SortedEntries(v)) ELSE v.kids
ElemKey(v, x) ==
    IF v.kind = "map" THEN SortedEntries(v)[x].s
    ELSE IF (x = 1) = (v.s = "Pair") THEN "A" ELSE "B"

\* the first error met on the way through a value
RECURSIVE marshalErr(_)
RECURSIVE firstErr(_, _)
firstErr(items, x) ==
    IF x > Len(items) THEN <<>>
    ELSE IF marshalErr(items[x]) # <<>> THEN marshalErr(items[x])
    ELSE firstErr(items, x + 1)

marshalErr(v) ==
    CASE v.kind \in {"func", "chan", "nan"} -> JSONError(v)
      [] v.kind = "ptr" -> marshalErr(Heap(v.addr))
      [] v.kind \in {"map", "struct"} -> firstErr(Elems(v), 1)
      [] OTHER -> <<>>

RECURSIVE encode(_, _)
RECURSIVE encodeItems(_, _, _, _)
encodeItems(v, x, items, depth) ==
    IF x > Len(items) THEN <<>>
    ELSE <<"\n">> \o JSONIndent(depth + 1)
         \o <<JSONKey(ElemKey(v, x)), ":", " ">> \o encode(items[x], depth + 1)
         \o (IF x < Len(items) THEN <<",">> ELSE <<>>)
         \o encodeItems(v, x + 1, items, depth)

encode(v, depth) ==
    CASE v.kind = "nil" -> <<"null">>
      [] v.kind \in {"int", "float"} -> <<ToString(v.n)>>
      [] v.kind = "ptr" -> encode(Heap(v.addr), depth)
      [] v.kind \in {"map", "struct"} ->
           IF Len(v.kids) = 0 THEN <<"{", "}">>
           ELSE <<"{">> \o encodeItems(v, 1, Elems(v), depth)
                \o <<"\n">> \o JSONIndent(depth) \o <<"}">>

Marshalled(err, v) == [err |-> err, out |-> IF err = <<>> THEN encode(v, 0) ELSE <<>>]

MarshalIndent(v) == Marshalled(marshalErr(v), v)

\* json.Unmarshal(data, &x) into an interface{}: [ok, val].  An object
\* decodes to a map[string]interface{} (a later duplicate key replaces the
\* earlier one), a number to a float64, null to nil.  On an error x keeps
\* what it held, the nil interface.  A decoded map is a new object: its
\* address is at plus the place of its "{", which no other value has.
Least(S, none) == IF S = {} THEN none ELSE CHOOSE q \in S : \A o \in S : q <= o

\* the place of the first atom at or after p that is no white space
SkipSpace(d, p) == Least({q \in p..Len(d) : d[q] \notin JSONSpace}, Len(d) + 1)

Put(entries, k, v) ==
    IF \E x \in 1..Len(entries) : entries[x].s = k
    THEN [x \in 1..Len(entries) |-> IF entries[x].s = k THEN Entry(k, v) ELSE entries[x]]
    ELSE Append(entries, Entry(k, v))

NoValue == [ok |-> FALSE, val |-> Nil, next |-> 0]

RECURSIVE decodeValue(_, _, _)
RECURSIVE decodeMembers(_, _, _, _, _)
RECURSIVE memberKey(_, _, _, _, _)
RECURSIVE memberColon(_, _, _, _, _, _)
RECURSIVE memberValue(_, _, _, _, _, _)
RECURSIVE memberEnd(_, _, _, _, _)
RECURSIVE valueAt(_, _, _)
RECURSIVE objectAt(_, _, _, _)

\* after the value of a member, at q: "}" ends the object, "," goes on
memberEnd(d, q, at, self, more) ==
    IF q > Len(d) THEN NoValue
    ELSE IF d[q] = "}" THEN [ok |-> TRUE, val |-> Map(self, more), next |-> q + 1]
    ELSE IF d[q] = "," THEN decodeMembers(d, q + 1, at, self, more)
    ELSE NoValue

\* the value v of the member whose key is at p
memberValue(d, p, v, at, self, entries) ==
    IF ~v.ok THEN NoValue
    ELSE memberEnd(d, SkipSpace(d, v.next), at, self, Put(entries, KeyOf(d[p]), v.val))

\* after the key at p, at c: ":" and the value
memberColon(d, p, c, at, self, entries) ==
    IF c > Len(d) \/ d[c] # ":" THEN NoValue
    ELSE memberValue(d, p, decodeValue(d, c + 1, at), at, self, entries)

\* at p: a key
memberKey(d, p, at, self, entries) ==
    IF p > Len(d) \/ d[p] \notin JSONKeys THEN NoValue
    ELSE memberColon(d, p, SkipSpace(d, p + 1), at, self, entries)

\* after "{" or ",": a key, ":", a value, then "," or "}"
decodeMembers(d, p0, at, self, entries) == memberKey(d, SkipSpace(d, p0), at, self, entries)

\* after the "{" at p, at q: "}" for the empty object, or the members
objectAt(d, p, q, at) ==
    IF q <= Len(d) /\ d[q] = "}"
    THEN [ok |-> TRUE, val |-> Map(at + p, <<>>), next |-> q + 1]
    ELSE decodeMembers(d, p + 1, at, at + p, <<>>)

valueAt(d, p, at) ==
    IF p > Len(d) THEN NoValue
    ELSE IF d[p] = "null" THEN [ok |-> TRUE, val |-> Nil, next |-> p + 1]
    ELSE IF d[p] \in JSONNumbers
         THEN [ok |-> TRUE, val |-> FloatVal(NumberOf(d[p])), next |-> p + 1]
    ELSE IF d[p] = "{" THEN objectAt(d, p, SkipSpace(d, p + 1), at)
    ELSE NoValue

decodeValue(d, p0, at) == valueAt(d, SkipSpace(d, p0), at)

\* the document is one value and white space
Whole(data, v) ==
    IF v.ok /\ SkipSpace(data, v.next) > Len(data)
    THEN [ok |-> TRUE, val |-> v.val]
    ELSE [ok |-> FALSE, val |-> Nil]

Unmarshal(data, at) == Whole(data, decodeValue(data, 1, at))

\* ------------------------------------------------------ golang.org/x/net/html
\* A markup text is a sequence of the atoms "<p>", "</p>" and text.  A node is
\* [type, data, kids]: a "document", an "element" with its tag as data, a
\* "text" with its text as data, or an "error" node (html.ErrorNode, which
\* no parse produces).
Node(type, data, kids) == [type |-> type, data |-> data, kids |-> kids]
Text(data) == Node("text", data, <<>>)
P(kids) == Node("element", <<"p">>, kids)
ErrorNode == Node("error", <<>>, <<>>)
NoNode == Node("none", <<>>, <<>>)

\* text appended to a list of nodes joins the text node that ends it
AddText(nodes, t) ==
    IF nodes # <<>> /\ nodes[Len(nodes)].type = "text"
    THEN SubSeq(nodes, 1, Len(nodes) - 1) \o <<Text(Append(nodes[Len(nodes)].data, t))>>
    ELSE Append(nodes, Text(<<t>>))

\* html.Parse, the children of <body>: a <p> closes the p that is open, a
\* </p> with no p open makes an empty one, the end closes what is open.
RECURSIVE parseBody(_, _, _, _)
parseBody(m, done, open, cur) ==
    IF m = <<>> THEN (IF open THEN Append(done, P(cur)) ELSE done)
    ELSE LET tok == Head(m)
         IN  IF tok = "<p>"
             THEN parseBody(Tail(m), IF open THEN Append(done, P(cur)) ELSE done, TRUE, <<>>)
             ELSE IF tok = "</p>"
             THEN parseBody(Tail(m), Append(done, P(IF open THEN cur ELSE <<>>)), FALSE, <<>>)
             ELSE IF open THEN parseBody(Tail(m), done, TRUE, AddText(cur, tok))
             ELSE parseBody(Tail(m), AddText(done, tok), FALSE, <<>>)

\* html.Parse(strings.NewReader(s)): reading a string cannot fail, and every
\* text parses to a document <html><head></head><body>...</body></html>
Parse(m) ==
    Node("document", <<>>,
         <<Node("element", <<"html">>,
                <<Node("element", <<"head">>, <<>>),
                  Node("element", <<"body">>, parseBody(m, <<>>, FALSE, <<>>))>>)>>)

OpenTag(tag) ==
    CASE tag = "p" -> "<p>" [] tag = "html" -> "<html>"
      [] tag = "head" -> "<head>" [] tag = "body" -> "<body>"

CloseTag(tag) ==
    CASE tag = "p" -> "</p>" [] tag = "html" -> "</html>"
      [] tag = "head" -> "</head>" [] tag = "body" -> "</body>"

\* html.Render(w, n): [err, out]
RECURSIVE renderable(_)
renderable(n) == n.type # "error" /\ \A x \in 1..Len(n.kids) : renderable(n.kids[x])

RECURSIVE render(_)
RECURSIVE renderAll(_)
renderAll(nodes) == IF nodes = <<>> THEN <<>> ELSE render(Head(nodes)) \o renderAll(Tail(nodes))

render(n) ==
    CASE n.type = "text" -> n.data
      [] n.type = "document" -> renderAll(n.kids)
      [] n.type = "element" ->
           <<OpenTag(n.data[1])>> \o renderAll(n.kids) \o <<CloseTag(n.data[1])>>

Render(n) ==
    IF renderable(n) THEN [err |-> <<>>, out |-> render(n)]
    ELSE [err |-> <<"html: cannot render an ErrorNode node">>, out |-> <<>>]

\* An argument of HTMLEqual is [kind, markup, nodes]:
\*   "string", "bytes"  the markup
\*   "node"             a *html.Node, the document parsed from the markup
\*   "selection"        a *goquery.Selection holding nodes
\*   "other"            a value of any other type (an int, the nil interface)
HTMLArg(kind, markup, nodes) == [kind |-> kind, markup |-> markup, nodes |-> nodes]

\* goquery.OuterHtml(s): the markup of the first node of the selection, ""
\* for an empty selection
OuterHtml(sel) == IF sel.nodes = <<>> THEN [err |-> <<>>, out |-> <<>>] ELSE Render(sel.nodes[1])

\* toHTMLNode(i): [err, node]
parsedOuterHtml(str) ==
    IF str.err # <<>>
    THEN [err |-> <<"failed to get outer html", ": ">> \o str.err, node |-> NoNode]
    ELSE [err |-> <<>>, node |-> Parse(str.out)]

toHTMLNode(i) ==
    CASE i.kind = "node" -> [err |-> <<>>, node |-> Parse(i.markup)]
      [] i.kind \in {"string", "bytes"} -> [err |-> <<>>, node |-> Parse(i.markup)]
      [] i.kind = "selection" -> parsedOuterHtml(OuterHtml(i))
      [] OTHER -> [err |-> <<"unknown type: ", "%T">>, node |-> NoNode]

\* reflect.DeepEqual on two *html.Node: the trees are equal node by node (the
\* parent and sibling pointers of a tree make cycles, which are followed once)
nodeDeepEqual(x, y) == x = y

\* ---------------------------------------------------------------- the sink
\* What a call has done so far is an outcome [log, ret, halted]: the calls
\* made on sinks in order, the value returned ("true", "false", or "none"
\* while there is none), and whether the goroutine was stopped.  A sink is a
\* *testing.T: Errorf records and returns, FailNow records and stops the
\* goroutine (runtime.Goexit), so nothing after it runs.
Sinks == {"t1", "t2"}

Start == [log |-> <<>>, ret |-> "none", halted |-> FALSE]

Section(label, body) == [label |-> label, body |-> body]

Errorf(o, t, msg) == [o EXCEPT !.log = Append(@, [ev |-> "Errorf", t |-> t, msg |-> msg])]

FailNow(o, t) ==
    [log |-> Append(o.log, [ev |-> "FailNow", t |-> t, msg |-> <<>>]),
     ret |-> "none", halted |-> TRUE]

Return(o, b) == [o EXCEPT !.ret = IF b THEN "true" ELSE "false"]

\* ------------------------------------------------------- Failure Reporter
MsgArgs == {<<>>, <<"note">>}

\* messageFromMsgAndArgs(msgAndArgs...): nothing for no arguments, the one
\* argument, or the first formatted with the rest
messageFromMsgAndArgs(msgAndArgs) ==
    IF Len(msgAndArgs) = 0 THEN <<>>
    ELSE IF Len(msgAndArgs) = 1 THEN <<msgAndArgs[1]>>
    ELSE <<"Sprintf">> \o msgAndArgs

\* assert.CallerInfo() joined
errorTrace == <<"CallerInfo">>

\* Fail: one Errorf with the trace, the failure message and, when there is
\* one, the user's message; returns false.  part_000 writes it out, assert.go
\* and part_001 hand it to testify's assert.Fail.
Fail(o, t, failureMessage, msgAndArgs) ==
    LET message == messageFromMsgAndArgs(msgAndArgs)
    IN  Return(IF Len(message) > 0
               THEN Errorf(o, t, <<Section("Error Trace:", errorTrace),
                                   Section("Error:", failureMessage),
                                   Section("Messages:", message)>>)
               ELSE Errorf(o, t, <<Section("Error Trace:", errorTrace),
                                   Section("Error:", failureMessage)>>),
               FALSE)

\* a FailDiff that writes the diff after the user's message; the layout
\* property of the report is told apart from it
FailDiffAfterMessages(o, t, failureMessage, d, msgAndArgs) ==
    Return(Errorf(o, t, <<Section("Error Trace:", errorTrace), Section("Error:", failureMessage),
                          Section("Messages:", messageFromMsgAndArgs(msgAndArgs)),
                          Section("Diff:", d)>>), FALSE)

\* FailDiff: Fail when the diff is empty, else one Errorf with the trace, the
\* failure message, the diff and the user's message; returns false.
FailDiff(o, t, failureMessage, d, msgAndArgs) ==
    IF d = <<>> THEN Fail(o, t, failureMessage, msgAndArgs)
    ELSE LET message == messageFromMsgAndArgs(msgAndArgs)
             msg0 == <<Section("Error Trace:", errorTrace), Section("Error:", failureMessage)>>
             msg1 == IF Len(d) > 0 THEN Append(msg0, Section("Diff:", d)) ELSE msg0
             msg2 == IF Len(message) > 0 THEN Append(msg1, Section("Messages:", message)) ELSE msg1
         IN  Return(Errorf(o, t, msg2), FALSE)

\* ------------------------------------------------------ Equivalence Checks
\* package assert; r is the revision, for the diff it selects
DeepEqual(r, o, t, expected, actual, msgAndArgs) ==
    IF reflectDeepEqual(expected, actual) THEN Return(o, TRUE)
    ELSE FailDiff(o, t, <<"Structs differ">>, interfaceDiff(r, expected, actual), msgAndArgs)

\* marshalJSON: [o, output]; the result of Fail is dropped and the output of
\* MarshalIndent, nil on an error, is returned
marshalled(o, t, m, msgAndArgs) ==
    [o |-> IF m.err # <<>>
           THEN Fail(o, t, <<"Error marshaling JSON: ">> \o m.err \o <<"\n">>, msgAndArgs)
           ELSE o,
     output |-> m.out]

marshalJSON(o, t, i, msgAndArgs) == marshalled(o, t, MarshalIndent(i), msgAndArgs)

\* a DeepEqualJSON that compares the two JSON texts instead of what they
\* decode to; the decision on the decoded forms is told apart from it
compareJSONTexts(r, t, expectedOutput, actualJSON, msgAndArgs) ==
    IF expectedOutput = actualJSON.output
    THEN Return(actualJSON.o, TRUE)
    ELSE FailDiff(actualJSON.o, t, <<"JSON representations differ">>,
                  diff(r, expectedOutput, actualJSON.output), msgAndArgs)

\* DeepEqualJSON after both calls of marshalJSON: the two outputs are decoded,
\* the errors of json.Unmarshal dropped, and the decoded values compared
compareJSON(r, t, expectedOutput, actualJSON, msgAndArgs) ==
    IF reflectDeepEqual(Unmarshal(expectedOutput, 100).val,
                        Unmarshal(actualJSON.output, 200).val)
    THEN Return(actualJSON.o, TRUE)
    ELSE FailDiff(actualJSON.o, t, <<"JSON representations differ">>,
                  diff(r, expectedOutput, actualJSON.output), msgAndArgs)

\* DeepEqualJSON after marshalJSON(t, expected)
marshalActual(r, t, expectedJSON, actual, msgAndArgs) ==
    compareJSON(r, t, expectedJSON.output,
                marshalJSON(expectedJSON.o, t, actual, msgAndArgs), msgAndArgs)

DeepEqualJSON(r, o, t, expected, actual, msgAndArgs) ==
    marshalActual(r, t, marshalJSON(o, t, expected, msgAndArgs), actual, msgAndArgs)

\* MarshalsToJSON after marshalJSON(t, actual), with e what json.Unmarshal
\* made of the expected document
compareMarshalled(r, t, expected, e, actualJSON, msgAndArgs) ==
    IF ~e.ok
    THEN Fail(actualJSON.o, t, <<"Error unmarshaling expected JSON string">>, msgAndArgs)
    ELSE IF reflectDeepEqual(e.val, Unmarshal(actualJSON.output, 200).val)
         THEN Return(actualJSON.o, TRUE)
    ELSE FailDiff(actualJSON.o, t, <<"JSON representations differ">>,
                  diff(r, expected, actualJSON.output), msgAndArgs)

MarshalsToJSON(r, o, t, expected, actual, msgAndArgs) ==
    compareMarshalled(r, t, expected, Unmarshal(expected, 100),
                      marshalJSON(o, t, actual, msgAndArgs), msgAndArgs)

LinesEqual(r, o, t, expected, actual, msgAndArgs) ==
    IF expected = actual THEN Return(o, TRUE)
    ELSE FailDiff(o, t, <<"Strings differ">>, diff(r, expected, actual), msgAndArgs)

\* HTMLEqual (part_000 only).  What follows a FailNow runs only if the sink
\* came back from it.
compareHTML(r, o, t, expNode, act, msgAndArgs) ==
    IF o.halted THEN o
    ELSE IF ~nodeDeepEqual(expNode, act.node)
         THEN FailDiff(o, t, <<"HTML differs">>,
                       diff(r, Render(expNode).out, Render(act.node).out), msgAndArgs)
    ELSE Return(o, TRUE)

actualHTML(r, o, t, expNode, act, msgAndArgs) ==
    IF o.halted THEN o
    ELSE compareHTML(r,
                     IF act.err # <<>>
                     THEN FailNow(Errorf(o, t, <<Section("invalid actual document: ", act.err)>>), t)
                     ELSE o,
                     t, expNode, act, msgAndArgs)

\* an HTMLEqual that reports an expected side it cannot normalize as an
\* ordinary failure, without FailNow; the abort property is told apart from it
expectedHTMLReported(r, o, t, exp, actual, msgAndArgs) ==
    IF exp.err # <<>>
    THEN Return(Errorf(o, t, <<Section("invalid expected document: ", exp.err)>>), FALSE)
    ELSE actualHTML(r, o, t, exp.node, toHTMLNode(actual), msgAndArgs)

expectedHTML(r, o, t, exp, actual, msgAndArgs) ==
    actualHTML(r,
               IF exp.err # <<>>
               THEN FailNow(Errorf(o, t, <<Section("invalid expected document: ", exp.err)>>), t)
               ELSE o,
               t, exp.node, toHTMLNode(actual), msgAndArgs)

HTMLEqual(r, o, t, expected, actual, msgAndArgs) ==
    expectedHTML(r, o, t, toHTMLNode(expected), actual, msgAndArgs)

\* (a *Assertions) Op(...) of package assert: the function on a.t.  self is
\* a.t; t is the sink the DeepEqual method of assert.go and part_001 takes
\* for itself and does not use.
Assertions_DeepEqual(r, o, self, t, expected, actual, msgAndArgs) ==
    DeepEqual(r, o, self, expected, actual, msgAndArgs)

Assertions_DeepEqualJSON(r, o, self, expected, actual, msgAndArgs) ==
    DeepEqualJSON(r, o, self, expected, actual, msgAndArgs)

Assertions_MarshalsToJSON(r, o, self, expected, actual, msgAndArgs) ==
    MarshalsToJSON(r, o, self, expected, actual, msgAndArgs)

Assertions_LinesEqual(r, o, self, expected, actual, msgAndArgs) ==
    LinesEqual(r, o, self, expected, actual, msgAndArgs)

\* a require wrapper that drops the result and never calls FailNow; the
\* propagation property is told apart from it
ReturnUnless(o1, t) == [o1 EXCEPT !.ret = "none"]

\* package require: if !assert.Op(t, ...) { t.FailNow() }, with o1 what the
\* call of assert.Op did; nothing is returned
FailNowUnless(o1, t) ==
    IF o1.halted THEN o1
    ELSE IF o1.ret # "true" THEN FailNow(o1, t)
    ELSE [o1 EXCEPT !.ret = "none"]

require_DeepEqual(r, o, t, expected, actual, msgAndArgs) ==
    FailNowUnless(DeepEqual(r, o, t, expected, actual, msgAndArgs), t)

require_DeepEqualJSON(r, o, t, expected, actual, msgAndArgs) ==
    FailNowUnless(DeepEqualJSON(r, o, t, expected, actual, msgAndArgs), t)

require_MarshalsToJSON(r, o, t, expected, actual, msgAndArgs) ==
    FailNowUnless(MarshalsToJSON(r, o, t, expected, actual, msgAndArgs), t)

require_LinesEqual(r, o, t, expected, actual, msgAndArgs) ==
    FailNowUnless(LinesEqual(r, o, t, expected, actual, msgAndArgs), t)

require_HTMLEqual(r, o, t, expected, actual, msgAndArgs) ==
    FailNowUnless(HTMLEqual(r, o, t, expected, actual, msgAndArgs), t)

\* (a *Assertions) Op(...) of package require; t is the sink the
\* DeepEqualJSON method of part_003 takes for itself and does not use
require_Assertions_DeepEqual(r, o, self, expected, actual, msgAndArgs) ==
    require_DeepEqual(r, o, self, expected, actual, msgAndArgs)

require_Assertions_DeepEqualJSON(r, o, self, t, expected, actual, msgAndArgs) ==
    require_DeepEqualJSON(r, o, self, expected, actual, msgAndArgs)

require_Assertions_MarshalsToJSON(r, o, self, expected, actual, msgAndArgs) ==
    require_MarshalsToJSON(r, o, self, expected, actual, msgAndArgs)

require_Assertions_LinesEqual(r, o, self, expected, actual, msgAndArgs) ==
    require_LinesEqual(r, o, self, expected, actual, msgAndArgs)

require_Assertions_HTMLEqual(r, o, self, expected, actual, msgAndArgs) ==
    require_HTMLEqual(r, o, self, expected, actual, msgAndArgs)

\* ------------------------------------------------------------- the facades
Revisions == {1, 2, 3}

\* the exported checks of each package and the methods of its Assertions, by
\* revision
AssertFunctions(r) ==
    CASE r = 1 -> {"DeepEqual"}
      [] r = 2 -> {"DeepEqual", "DeepEqualJSON", "MarshalsToJSON", "LinesEqual"}
      [] r = 3 -> {"DeepEqual", "DeepEqualJSON", "MarshalsToJSON", "LinesEqual", "HTMLEqual"}

AssertMethods(r) ==
    CASE r = 1 -> {"DeepEqual"}
      [] r \in {2, 3} -> {"DeepEqual", "DeepEqualJSON", "MarshalsToJSON", "LinesEqual"}

RequireFunctions(r) ==
    CASE r = 1 -> {"DeepEqual"}
      [] r = 2 -> {"DeepEqual", "DeepEqualJSON", "MarshalsToJSON"}
      [] r = 3 -> {"DeepEqual", "DeepEqualJSON", "MarshalsToJSON", "LinesEqual", "HTMLEqual"}

RequireMethods(r) == RequireFunctions(r)

\* the methods that take a TestingT of their own, and leave it unused:
\* (*Assertions).DeepEqual of assert.go and part_001, and
\* (*Assertions).DeepEqualJSON of part_003
TakesSink(pkg, op, r) ==
    \/ pkg = "assert" /\ op = "DeepEqual" /\ r \in {1, 2}
    \/ pkg = "require" /\ op = "DeepEqualJSON" /\ r = 2

\* ------------------------------------------------------------- the inputs
Scalars == {Nil, NaN, Func(7), Chan(8), Chan(9)} \cup {IntVal(n) : n \in 1..MaxInt}
Pointers == {Ptr(x) : x \in HeapAddrs}
MapContents ==
    {<<>>, <<Entry("a", IntVal(1))>>, <<Entry("a", NaN)>>,
     <<Entry("a", IntVal(1)), Entry("b", IntVal(2))>>,
     <<Entry("b", IntVal(2)), Entry("a", IntVal(1))>>}
Maps == {Map(x, c) : x \in {10, 11}, c \in MapContents}
\* type Pair struct{ A, B interface{} } and type Riap struct{ B, A interface{} }
Structs ==
    {Struct("Pair", <<x, y>>) : x \in {IntVal(1), NaN, Ptr(1), Ptr(2)}, y \in {Nil, NaN}}
    \cup {Struct("Riap", <<Nil, x>>) : x \in {IntVal(1), IntVal(2)}}
Values == Scalars \cup Pointers \cup Maps \cup Structs

\* one map object has one content
Coexist(x, y) == (x.kind = "map" /\ y.kind = "map" /\ x.addr = y.addr) => x = y

\* json.Marshal does not end on a value that contains itself
JSONValues == Values \ {Ptr(4), Ptr(5)}

Compact(d) == SelectSeq(d, LAMBDA c : c \notin JSONSpace)

\* the literal documents given to MarshalsToJSON: short texts, most of them
\* no JSON, the encodings of the values with and without white space, and an
\* object with its keys in another order
Literals ==
    SeqsUpTo({"{", "}", "1", "null"}, MaxLen - 1)
    \cup {MarshalIndent(v).out : v \in JSONValues}
    \cup {Compact(MarshalIndent(v).out) : v \in JSONValues}
    \cup {<<"{", "\"b\"", ":", "2", ",", " ", "\"a\"", ":", "1", "}">>,
          <<"{", "\"a\"", ":", "1", ",", "\"a\"", ":", "2", "}">>}

LineTexts == SeqsUpTo(Chars, MaxLen - 1)

Markups ==
    {<<>>, <<"hi">>, <<"bye">>, <<"<p>", "hi">>, <<"<p>", "hi", "</p>">>,
     <<"<p>", "bye", "</p>">>, <<"</p>">>, <<"<p>", "</p>">>}

HTMLArgs ==
    {HTMLArg(k, m, <<>>) : k \in {"string", "bytes", "node"}, m \in Markups}
    \cup {HTMLArg("selection", <<>>, n) :
            n \in {<<>>, <<ErrorNode>>, <<Text(<<"hi">>)>>, <<P(<<Text(<<"hi">>)>>)>>,
                   <<P(<<Text(<<"bye">>)>>), P(<<>>)>>}}
    \cup {HTMLArg("other", <<>>, <<>>)}

\* the pairs (expected, actual) a check is called with
Args(op) ==
    CASE op = "DeepEqual" -> {p \in Values \X Values : Coexist(p[1], p[2])}
      [] op = "DeepEqualJSON" -> {p \in JSONValues \X JSONValues : Coexist(p[1], p[2])}
      [] op = "MarshalsToJSON" -> Literals \X JSONValues
      [] op = "LinesEqual" -> LineTexts \X LineTexts
      [] op = "HTMLEqual" -> HTMLArgs \X HTMLArgs

\* ------------------------------------------------------------- the program
\* One test body calling the packages:
\*   rev   the revision of the packages
\*   a     the sink held by the *assert.Assertions the test made with New
\*   rq    the sink held by the *require.Assertions the test made with New
\*   pc    "idle" between calls, "returned" after a call came back,
\*         "aborted" after a FailNow stopped the test, "input" before a pure
\*         function is applied
\*   call  the last call: package, form, check, sink argument, arguments
\*   log   the calls that call made on sinks, in order
\*   ret   what it returned: "true", "false", "none"
\*   out   the text a pure function returned
VARIABLES rev, a, rq, pc, call, log, ret, out

vars == <<rev, a, rq, pc, call, log, ret, out>>

NoCall == [pkg |-> "", form |-> "", op |-> "", t |-> "", expected |-> <<>>,
           actual |-> <<>>, msg |-> <<>>]

\* New(t) of both packages, on the test's own sink
Init ==
    /\ rev \in Revisions
    /\ a = "t1"
    /\ rq = "t1"
    /\ pc = "idle"
    /\ call = NoCall
    /\ log = <<>>
    /\ ret = "none"
    /\ out = <<>>

Do(pkg, form, op, t, expected, actual, m, o) ==
    /\ call' = [pkg |-> pkg, form |-> form, op |-> op, t |-> t, expected |-> expected,
                actual |-> actual, msg |-> m]
    /\ log' = o.log
    /\ ret' = o.ret
    /\ pc' = IF o.halted THEN "aborted" ELSE "returned"
    /\ UNCHANGED <<rev, a, rq, out>>

FailureMessages == {<<"Structs differ">>, <<"Error marshaling JSON: ", "json: unsupported ", "func()", "\n">>}
DiffTexts == {diff(3, x, y) : x \in SeqsUpTo(Chars, 1), y \in SeqsUpTo(Chars, 1)}

AssertFail ==
    /\ pc = "idle"
    /\ \E t \in Sinks, f \in FailureMessages, m \in MsgArgs :
          Do("assert", "func", "Fail", t, f, <<>>, m, Fail(Start, t, f, m))

AssertFailDiff ==
    /\ pc = "idle"
    /\ \E t \in Sinks, f \in FailureMessages, d \in DiffTexts, m \in MsgArgs :
          Do("assert", "func", "FailDiff", t, f, d, m, FailDiff(Start, t, f, d, m))

AssertDeepEqual ==
    /\ pc = "idle"
    /\ "DeepEqual" \in AssertFunctions(rev)
    /\ \E t \in Sinks, p \in Args("DeepEqual"), m \in MsgArgs :
          Do("assert", "func", "DeepEqual", t, p[1], p[2], m,
             DeepEqual(rev, Start, t, p[1], p[2], m))

AssertDeepEqualJSON ==
    /\ pc = "idle"
    /\ "DeepEqualJSON" \in AssertFunctions(rev)
    /\ \E t \in Sinks, p \in Args("DeepEqualJSON"), m \in MsgArgs :
          Do("assert", "func", "DeepEqualJSON", t, p[1], p[2], m,
             DeepEqualJSON(rev, Start, t, p[1], p[2], m))

AssertMarshalsToJSON ==
    /\ pc = "idle"
    /\ "MarshalsToJSON" \in AssertFunctions(rev)
    /\ \E t \in Sinks, p \in Args("MarshalsToJSON"), m \in MsgArgs :
          Do("assert", "func", "MarshalsToJSON", t, p[1], p[2], m,
             MarshalsToJSON(rev, Start, t, p[1], p[2], m))

AssertLinesEqual ==
    /\ pc = "idle"
    /\ "LinesEqual" \in AssertFunctions(rev)
    /\ \E t \in Sinks, p \in Args("LinesEqual"), m \in MsgArgs :
          Do("assert", "func", "LinesEqual", t, p[1], p[2], m,
             LinesEqual(rev, Start, t, p[1], p[2], m))

AssertHTMLEqual ==
    /\ pc = "idle"
    /\ "HTMLEqual" \in AssertFunctions(rev)
    /\ \E t \in Sinks, p \in Args("HTMLEqual"), m \in MsgArgs :
          Do("assert", "func", "HTMLEqual", t, p[1], p[2], m,
             HTMLEqual(rev, Start, t, p[1], p[2], m))

AssertionsDeepEqual ==
    /\ pc = "idle"
    /\ "DeepEqual" \in AssertMethods(rev)
    /\ \E t \in IF TakesSink("assert", "DeepEqual", rev) THEN Sinks ELSE {"-"}, p \in Args("DeepEqual"), m \in MsgArgs :
          Do("assert", "method", "DeepEqual", t, p[1], p[2], m,
             Assertions_DeepEqual(rev, Start, a, t, p[1], p[2], m))

AssertionsDeepEqualJSON ==
    /\ pc = "idle"
    /\ "DeepEqualJSON" \in AssertMethods(rev)
    /\ \E t \in IF TakesSink("assert", "DeepEqualJSON", rev) THEN Sinks ELSE {"-"}, p \in Args("DeepEqualJSON"), m \in MsgArgs :
          Do("assert", "method", "DeepEqualJSON", t, p[1], p[2], m,
             Assertions_DeepEqualJSON(rev, Start, a, p[1], p[2], m))

AssertionsMarshalsToJSON ==
    /\ pc = "idle"
    /\ "MarshalsToJSON" \in AssertMethods(rev)
    /\ \E t \in IF TakesSink("assert", "MarshalsToJSON", rev) THEN Sinks ELSE {"-"}, p \in Args("MarshalsToJSON"), m \in MsgArgs :
          Do("assert", "method", "MarshalsToJSON", t, p[1], p[2], m,
             Assertions_MarshalsToJSON(rev, Start, a, p[1], p[2], m))

AssertionsLinesEqual ==
    /\ pc = "idle"
    /\ "LinesEqual" \in AssertMethods(rev)
    /\ \E t \in IF TakesSink("assert", "LinesEqual", rev) THEN Sinks ELSE {"-"}, p \in Args("LinesEqual"), m \in MsgArgs :
          Do("assert", "method", "LinesEqual", t, p[1], p[2], m,
             Assertions_LinesEqual(rev, Start, a, p[1], p[2], m))

RequireDeepEqual ==
    /\ pc = "idle"
    /\ "DeepEqual" \in RequireFunctions(rev)
    /\ \E t \in Sinks, p \in Args("DeepEqual"), m \in MsgArgs :
          Do("require", "func", "DeepEqual", t, p[1], p[2], m,
             require_DeepEqual(rev, Start, t, p[1], p[2], m))

RequireDeepEqualJSON ==
    /\ pc = "idle"
    /\ "DeepEqualJSON" \in RequireFunctions(rev)
    /\ \E t \in Sinks, p \in Args("DeepEqualJSON"), m \in MsgArgs :
          Do("require", "func", "DeepEqualJSON", t, p[1], p[2], m,
             require_DeepEqualJSON(rev, Start, t, p[1], p[2], m))

RequireMarshalsToJSON ==
    /\ pc = "idle"
    /\ "MarshalsToJSON" \in RequireFunctions(rev)
    /\ \E t \in Sinks, p \in Args("MarshalsToJSON"), m \in MsgArgs :
          Do("require", "func", "MarshalsToJSON", t, p[1], p[2], m,
             require_MarshalsToJSON(rev, Start, t, p[1], p[2], m))

RequireLinesEqual ==
    /\ pc = "idle"
    /\ "LinesEqual" \in RequireFunctions(rev)
    /\ \E t \in Sinks, p \in Args("LinesEqual"), m \in MsgArgs :
          Do("require", "func", "LinesEqual", t, p[1], p[2], m,
             require_LinesEqual(rev, Start, t, p[1], p[2], m))

RequireHTMLEqual ==
    /\ pc = "idle"
    /\ "HTMLEqual" \in RequireFunctions(rev)
    /\ \E t \in Sinks, p \in Args("HTMLEqual"), m \in MsgArgs :
          Do("require", "func", "HTMLEqual", t, p[1], p[2], m,
             require_HTMLEqual(rev, Start, t, p[1], p[2], m))

RequireAssertionsDeepEqual ==
    /\ pc = "idle"
    /\ "DeepEqual" \in RequireMethods(rev)
    /\ \E t \in IF TakesSink("require", "DeepEqual", rev) THEN Sinks ELSE {"-"}, p \in Args("DeepEqual"), m \in MsgArgs :
          Do("require", "method", "DeepEqual", t, p[1], p[2], m,
             require_Assertions_DeepEqual(rev, Start, rq, p[1], p[2], m))

RequireAssertionsDeepEqualJSON ==
    /\ pc = "idle"
    /\ "DeepEqualJSON" \in RequireMethods(rev)
    /\ \E t \in IF TakesSink("require", "DeepEqualJSON", rev) THEN Sinks ELSE {"-"}, p \in Args("DeepEqualJSON"), m \in MsgArgs :
          Do("require", "method", "DeepEqualJSON", t, p[1], p[2], m,
             require_Assertions_DeepEqualJSON(rev, Start, rq, t, p[1], p[2], m))

RequireAssertionsMarshalsToJSON ==
    /\ pc = "idle"
    /\ "MarshalsToJSON" \in RequireMethods(rev)
    /\ \E t \in IF TakesSink("require", "MarshalsToJSON", rev) THEN Sinks ELSE {"-"}, p \in Args("MarshalsToJSON"), m \in MsgArgs :
          Do("require", "method", "MarshalsToJSON", t, p[1], p[2], m,
             require_Assertions_MarshalsToJSON(rev, Start, rq, p[1], p[2], m))

RequireAssertionsLinesEqual ==
    /\ pc = "idle"
    /\ "LinesEqual" \in RequireMethods(rev)
    /\ \E t \in IF TakesSink("require", "LinesEqual", rev) THEN Sinks ELSE {"-"}, p \in Args("LinesEqual"), m \in MsgArgs :
          Do("require", "method", "LinesEqual", t, p[1], p[2], m,
             require_Assertions_LinesEqual(rev, Start, rq, p[1], p[2], m))

RequireAssertionsHTMLEqual ==
    /\ pc = "idle"
    /\ "HTMLEqual" \in RequireMethods(rev)
    /\ \E t \in IF TakesSink("require", "HTMLEqual", rev) THEN Sinks ELSE {"-"}, p \in Args("HTMLEqual"), m \in MsgArgs :
          Do("require", "method", "HTMLEqual", t, p[1], p[2], m,
             require_Assertions_HTMLEqual(rev, Start, rq, p[1], p[2], m))

\* the test body goes on after a call that came back
Continue ==
    /\ pc = "returned"
    /\ pc' = "idle"
    /\ call' = NoCall
    /\ log' = <<>>
    /\ ret' = "none"
    /\ UNCHANGED <<rev, a, rq, out>>

Next ==
    \/ AssertFail
    \/ AssertFailDiff
    \/ AssertDeepEqual
    \/ AssertDeepEqualJSON
    \/ AssertMarshalsToJSON
    \/ AssertLinesEqual
    \/ AssertHTMLEqual
    \/ AssertionsDeepEqual
    \/ AssertionsDeepEqualJSON
    \/ AssertionsMarshalsToJSON
    \/ AssertionsLinesEqual
    \/ RequireDeepEqual
    \/ RequireDeepEqualJSON
    \/ RequireMarshalsToJSON
    \/ RequireLinesEqual
    \/ RequireHTMLEqual
    \/ RequireAssertionsDeepEqual
    \/ RequireAssertionsDeepEqualJSON
    \/ RequireAssertionsMarshalsToJSON
    \/ RequireAssertionsLinesEqual
    \/ RequireAssertionsHTMLEqual
    \/ Continue

Spec == Init /\ [][Next]_vars

\* The Text Differ alone: the inputs are drawn at the start and diff is
\* applied to them.
InitDiff ==
    /\ rev \in Revisions
    /\ a = "t1"
    /\ rq = "t1"
    /\ pc = "input"
    /\ \E e \in Texts, x \in Texts : call = [NoCall EXCEPT !.op = "diff", !.expected = e, !.actual = x]
    /\ log = <<>>
    /\ ret = "none"
    /\ out = <<>>

ApplyDiff ==
    /\ pc = "input"
    /\ out' = diff(rev, call.expected, call.actual)
    /\ pc' = "returned"
    /\ UNCHANGED <<rev, a, rq, call, log, ret>>

NextDiff == ApplyDiff

SpecDiff == InitDiff /\ [][NextDiff]_vars

\* The dump interfaceDiff makes of a value, alone: two values are drawn at
\* the start and dumped as interfaceDiff dumps its two sides.
Slices == {SliceVal(x, c, e) : x \in {12, 13}, c \in 1..MaxInt,
                               e \in {<<>>, <<IntVal(1)>>}}

InitDump ==
    /\ rev \in Revisions
    /\ a = "t1"
    /\ rq = "t1"
    /\ pc = "input"
    /\ \E e \in Values \cup Slices, x \in Values \cup Slices :
          /\ Coexist(e, x)
          /\ call = [NoCall EXCEPT !.op = "Sdump", !.expected = e, !.actual = x]
    /\ log = <<>>
    /\ ret = "none"
    /\ out = <<>>

ApplyDump ==
    /\ pc = "input"
    /\ out' = <<masked(rev, Sdump(call.expected)), masked(rev, Sdump(call.actual))>>
    /\ pc' = "returned"
    /\ UNCHANGED <<rev, a, rq, call, log, ret>>

NextDump == ApplyDump

SpecDump == InitDump /\ [][NextDump]_vars

\* ------------------------------------------------------------- properties
\* a call has been made and has come back or has stopped the test
Called == pc \in {"returned", "aborted"}

Checks == {"DeepEqual", "DeepEqualJSON", "MarshalsToJSON", "LinesEqual", "HTMLEqual"}

\* the sink the call reports to: the one it was given, or the one its
\* Assertions object was made with
BoundSink ==
    IF call.form = "method" THEN (IF call.pkg = "assert" THEN a ELSE rq) ELSE call.t

Errorfs == SelectSeq(log, LAMBDA e : e.ev = "Errorf")
FailNows == SelectSeq(log, LAMBDA e : e.ev = "FailNow")

Labels(msg) == [i \in 1..Len(msg) |-> msg[i].label]
HasSection(msg, label) == \E i \in 1..Len(msg) : msg[i].label = label
BodyOf(msg, label) == msg[CHOOSE i \in 1..Len(msg) : msg[i].label = label].body

\* an Errorf whose description is text
Reported(text) ==
    \E i \in 1..Len(log) :
        /\ log[i].ev = "Errorf"
        /\ HasSection(log[i].msg, "Error:")
        /\ BodyOf(log[i].msg, "Error:") = text

\* the sides as the check compares them are unequal
Decoded(v, at) == Unmarshal(MarshalIndent(v).out, at).val
Mismatch ==
    CASE call.op = "DeepEqual" -> ~reflectDeepEqual(call.expected, call.actual)
      [] call.op = "DeepEqualJSON" ->
           ~reflectDeepEqual(Decoded(call.expected, 100), Decoded(call.actual, 200))
      [] call.op = "MarshalsToJSON" ->
           /\ Unmarshal(call.expected, 100).ok
           /\ ~reflectDeepEqual(Unmarshal(call.expected, 100).val, Decoded(call.actual, 200))
      [] call.op = "LinesEqual" -> call.expected # call.actual
      [] call.op = "HTMLEqual" ->
           /\ toHTMLNode(call.expected).err = <<>>
           /\ toHTMLNode(call.actual).err = <<>>
           /\ ~nodeDeepEqual(toHTMLNode(call.expected).node, toHTMLNode(call.actual).node)
      [] OTHER -> FALSE

\* C1 (as the specification states it, for part_002 over part_000): a
\* require-form check that fails, that is, reports anything, makes exactly
\* one Errorf followed by exactly one FailNow on its sink and does not come
\* back to the test body; the calls with a value that cannot be marshaled
\* are among them.
C1_OneReportThenAbort ==
    (Called /\ rev = 3 /\ call.pkg = "require" /\ call.op \in Checks /\ log # <<>>) =>
        /\ pc = "aborted"
        /\ Len(log) = 2
        /\ log[1].ev = "Errorf" /\ log[1].t = BoundSink
        /\ log[2].ev = "FailNow" /\ log[2].t = BoundSink

\* the value of a side that json.MarshalIndent refuses, if there is one
MarshalErrors ==
    IF call.op = "DeepEqualJSON"
    THEN {marshalErr(call.expected), marshalErr(call.actual)} \ {<<>>}
    ELSE IF call.op = "MarshalsToJSON" THEN {marshalErr(call.actual)} \ {<<>>}
    ELSE {}

\* C2 (as the specification states it, for part_000): whenever a side of
\* DeepEqualJSON, or the actual value of MarshalsToJSON, cannot be marshaled,
\* a failure with the marshaling error in its text is reported and the check
\* returns false, whatever the other side is.
C2_MarshalErrorFails ==
    (Called /\ rev = 3 /\ call.pkg = "assert" /\ MarshalErrors # {}) =>
        /\ ret = "false"
        /\ \A err \in MarshalErrors : Reported(<<"Error marshaling JSON: ">> \o err \o <<"\n">>)

\* the side HTMLEqual cannot normalize, the expected one first
BadSide ==
    IF call.op # "HTMLEqual" THEN "none"
    ELSE IF toHTMLNode(call.expected).err # <<>> THEN "expected"
    ELSE IF toHTMLNode(call.actual).err # <<>> THEN "actual"
    ELSE "none"

BadSideReport ==
    IF BadSide = "expected"
    THEN <<Section("invalid expected document: ", toHTMLNode(call.expected).err)>>
    ELSE <<Section("invalid actual document: ", toHTMLNode(call.actual).err)>>

\* C3: when HTMLEqual cannot normalize expected or actual, the call makes one
\* Errorf naming the side and its error, then FailNow on the same sink, and
\* nothing else: no second normalization is reported, no "HTML differs", and
\* the test does not go on.  This holds for the function of package assert
\* and for the function and the method of package require.
C3_NormalizationFailureAborts ==
    (Called /\ BadSide # "none") =>
        /\ pc = "aborted"
        /\ ret = "none"
        /\ log = <<[ev |-> "Errorf", t |-> BoundSink, msg |-> BadSideReport],
                   [ev |-> "FailNow", t |-> BoundSink, msg |-> <<>>]>>

\* the assert form stopped on an actual side that is no document, after an
\* expected side that is one
C3_Witness ==
    /\ Called /\ call.pkg = "assert" /\ call.op = "HTMLEqual"
    /\ BadSide = "actual"
    /\ pc = "aborted"

\* C4: a check of package assert whose sides differ reports, returns false
\* and never calls FailNow; a check of package require whose sides differ
\* calls FailNow once, as the last thing it does, after at least one Errorf.
C4_AbortOnlyInRequire ==
    (Called /\ call.op \in Checks /\ Mismatch) =>
        IF call.pkg = "assert"
        THEN /\ pc = "returned"
             /\ ret = "false"
             /\ FailNows = <<>>
             /\ Errorfs # <<>>
        ELSE /\ pc = "aborted"
             /\ Len(FailNows) = 1
             /\ Len(log) >= 2
             /\ log[Len(log)].ev = "FailNow"
             /\ log[Len(log) - 1].ev = "Errorf"

\* a method of package require stopped the test on two documents that differ
C4_Witness ==
    /\ Called /\ call.pkg = "require" /\ call.form = "method" /\ call.op = "HTMLEqual"
    /\ Mismatch
    /\ pc = "aborted"

\* C5 (as the specification states it, for part_000): when the expected
\* document of MarshalsToJSON does not parse, the call returns false and its
\* one and only report is "Error unmarshaling expected JSON string", without
\* a diff, whatever the actual value is.
C5_OnlyUnmarshalingReported ==
    (Called /\ rev = 3 /\ call.pkg = "assert" /\ call.op = "MarshalsToJSON"
        /\ ~Unmarshal(call.expected, 100).ok) =>
        /\ ret = "false"
        /\ Len(log) = 1
        /\ log[1].ev = "Errorf"
        /\ Labels(log[1].msg) \in {<<"Error Trace:", "Error:">>,
                                   <<"Error Trace:", "Error:", "Messages:">>}
        /\ BodyOf(log[1].msg, "Error:") = <<"Error unmarshaling expected JSON string">>

\* the sections a report of the Failure Reporter has, for a diff d
ReportLabels(d, msgAndArgs) ==
    <<"Error Trace:", "Error:">>
    \o (IF d # <<>> THEN <<"Diff:">> ELSE <<>>)
    \o (IF messageFromMsgAndArgs(msgAndArgs) # <<>> THEN <<"Messages:">> ELSE <<>>)

GivenDiff == IF call.op = "FailDiff" THEN call.actual ELSE <<>>

\* C6: a call of FailDiff or Fail makes exactly one Errorf on its sink and no
\* FailNow, comes back and returns false; the report has no diff section
\* when the diff is empty, and otherwise the diff stands after the
\* description and before the user's message.
C6_OneReportNoAbort ==
    (Called /\ call.op \in {"Fail", "FailDiff"}) =>
        /\ pc = "returned"
        /\ ret = "false"
        /\ Len(log) = 1
        /\ log[1].ev = "Errorf" /\ log[1].t = call.t
        /\ Labels(log[1].msg) = ReportLabels(GivenDiff, call.msg)
        /\ BodyOf(log[1].msg, "Error:") = call.expected
        /\ GivenDiff # <<>> => BodyOf(log[1].msg, "Diff:") = GivenDiff
        /\ call.msg # <<>> => BodyOf(log[1].msg, "Messages:") = messageFromMsgAndArgs(call.msg)

\* FailDiff was given a diff and a user's message
C6_Witness ==
    /\ Called /\ call.op = "FailDiff"
    /\ call.actual # <<>> /\ call.msg # <<>>
    /\ Labels(log[1].msg) = <<"Error Trace:", "Error:", "Diff:", "Messages:">>

\* a text with one terminator appended when it does not end in one
WithTerminator(s) == IF HasSuffix(s) THEN s ELSE Append(s, "\n")

\* a text without the terminators it ends in
RECURSIVE StripTerminators(_)
StripTerminators(s) == IF HasSuffix(s) THEN StripTerminators(SubSeq(s, 1, Len(s) - 1)) ELSE s

DiffApplied == pc = "returned" /\ call.op = "diff"

HasHunk(d) == \E i \in 1..Len(d) : d[i] = "@@ -"

\* C8 (as the specification states it): LinesEqual returns true without a
\* report exactly when the two texts are equal; for two different texts it
\* returns false with one report "Strings differ" whose diff section holds a
\* hunk, also when they differ only in a last terminator.
C8_DifferentTextsShowAHunk ==
    (Called /\ call.pkg = "assert" /\ call.op = "LinesEqual") =>
        IF call.expected = call.actual
        THEN ret = "true" /\ log = <<>>
        ELSE /\ ret = "false"
             /\ Len(log) = 1
             /\ log[1].ev = "Errorf"
             /\ BodyOf(log[1].msg, "Error:") = <<"Strings differ">>
             /\ HasSection(log[1].msg, "Diff:")
             /\ HasHunk(BodyOf(log[1].msg, "Diff:"))

\* a value reflect.DeepEqual finds equal to itself: not NaN, not a func, and
\* not a struct with such a field; a pointer or a map is equal to itself
\* whatever it holds
RECURSIVE Comparable(_)
Comparable(v) ==
    /\ v.kind \notin {"nan", "func"}
    /\ v.kind = "struct" => \A x \in 1..Len(v.kids) : Comparable(v.kids[x])

\* two map objects with the same keys and values
Independent(x, y) == x.kind = "map" /\ y.kind = "map" /\ x.addr # y.addr
EntrySet(m) == {m.kids[x] : x \in 1..Len(m.kids)}

DeepEqualCalled == Called /\ call.pkg = "assert" /\ call.op = "DeepEqual"

\* C9 (amended): DeepEqual(v, v) passes without a report for every value v
\* that is not NaN, not a func and not a struct with such a field (nil,
\* numbers, channels, pointers also into cycles, maps, structs), and fails
\* for the others; two independently built maps with the same keys and
\* values, none of them NaN, pass whatever the order of insertion.
C9_ReflexiveButNaNAndFunc ==
    DeepEqualCalled =>
        /\ (call.expected = call.actual /\ Comparable(call.expected)) =>
               (ret = "true" /\ log = <<>>)
        /\ (call.expected = call.actual /\ ~Comparable(call.expected)) =>
               (ret = "false" /\ Reported(<<"Structs differ">>))
        /\ (/\ Independent(call.expected, call.actual)
            /\ EntrySet(call.expected) = EntrySet(call.actual)
            /\ \A e \in EntrySet(call.expected) : Comparable(e.kids[1])) =>
               (ret = "true" /\ log = <<>>)

\* two maps built in different orders passed
C9_Witness ==
    /\ DeepEqualCalled
    /\ Independent(call.expected, call.actual)
    /\ EntrySet(call.expected) = EntrySet(call.actual)
    /\ call.expected.kids # call.actual.kids
    /\ ret = "true"

\* C9 (as the specification states it): DeepEqual(v, v) passes without a
\* report for every value v.
C9_Reflexive ==
    (DeepEqualCalled /\ call.expected = call.actual) => (ret = "true" /\ log = <<>>)

\* what the function of the call's package does on the sink the method's
\* object holds
FunctionOutcome ==
    IF call.pkg = "assert"
    THEN CASE call.op = "DeepEqual" ->
                DeepEqual(rev, Start, BoundSink, call.expected, call.actual, call.msg)
           [] call.op = "DeepEqualJSON" ->
                DeepEqualJSON(rev, Start, BoundSink, call.expected, call.actual, call.msg)
           [] call.op = "MarshalsToJSON" ->
                MarshalsToJSON(rev, Start, BoundSink, call.expected, call.actual, call.msg)
           [] call.op = "LinesEqual" ->
                LinesEqual(rev, Start, BoundSink, call.expected, call.actual, call.msg)
    ELSE CASE call.op = "DeepEqual" ->
                require_DeepEqual(rev, Start, BoundSink, call.expected, call.actual, call.msg)
           [] call.op = "DeepEqualJSON" ->
                require_DeepEqualJSON(rev, Start, BoundSink, call.expected, call.actual, call.msg)
           [] call.op = "MarshalsToJSON" ->
                require_MarshalsToJSON(rev, Start, BoundSink, call.expected, call.actual, call.msg)
           [] call.op = "LinesEqual" ->
                require_LinesEqual(rev, Start, BoundSink, call.expected, call.actual, call.msg)
           [] call.op = "HTMLEqual" ->
                require_HTMLEqual(rev, Start, BoundSink, call.expected, call.actual, call.msg)

\* C10 (as the specification states it): a method does what the function
\* does on the sink its object was made with (the same result, the same
\* calls on the same sink), and every check that is a function of a package
\* is a method of that package's Assertions.
C10_MethodForEveryFunction ==
    /\ (Called /\ call.op \in Checks /\ call.form = "method") =>
           /\ log = FunctionOutcome.log
           /\ ret = FunctionOutcome.ret
           /\ (pc = "aborted") = FunctionOutcome.halted
    /\ (Called /\ call.op \in Checks /\ call.form = "func") =>
           call.op \in (IF call.pkg = "assert" THEN AssertMethods(rev) ELSE RequireMethods(rev))

\* a dump with every address annotation "(0x" + digits + ")" and every
\* capacity annotation "cap=" + digits written with its placeholder, and
\* everything else, the ")" after a capacity included, as it was
RECURSIVE Placeheld(_)
Placeheld(s) ==
    IF s = <<>> THEN <<>>
    ELSE IF Len(s) >= 5 /\ s[1] = "(" /\ s[2] = "0x" /\ s[5] = ")"
         THEN <<"(0xXXXXXXXXXX)">> \o Placeheld(SubSeq(s, 6, Len(s)))
    ELSE IF Len(s) >= 2 /\ s[1] = "cap="
         THEN <<"cap=X">> \o Placeheld(SubSeq(s, 3, Len(s)))
    ELSE <<Head(s)>> \o Placeheld(Tail(s))

DumpApplied == pc = "returned" /\ call.op = "Sdump"

\* C11: the dump used for the diff of a DeepEqual failure is the raw dump
\* with each address annotation and each capacity annotation replaced by its
\* placeholder and the rest of the text, closing delimiters included, left
\* as it is; so two values whose raw dumps differ in such annotations only
\* have the same dump.
C11_VolatileDetailsMasked ==
    DumpApplied =>
        /\ out[1] = Placeheld(Sdump(call.expected))
        /\ out[2] = Placeheld(Sdump(call.actual))
        /\ Placeheld(Sdump(call.expected)) = Placeheld(Sdump(call.actual)) => out[1] = out[2]

\* what a value says as JSON: null, a number, or an object as the set of its
\* members; a pointer says what its target says
JSONNull == [tag |-> "null", n |-> 0, members |-> {}]

RECURSIVE Content(_)
Content(v) ==
    CASE v.kind = "nil" -> JSONNull
      [] v.kind \in {"int", "float"} -> [tag |-> "number", n |-> v.n, members |-> {}]
      [] v.kind = "ptr" -> Content(Heap(v.addr))
      [] v.kind = "map" ->
           [tag |-> "object", n |-> 0,
            members |-> {<<v.kids[x].s, Content(v.kids[x].kids[1])>> : x \in 1..Len(v.kids)}]
      [] v.kind = "struct" ->
           [tag |-> "object", n |-> 0,
            members |-> {<<ElemKey(v, x), Content(v.kids[x])>> : x \in 1..Len(v.kids)}]

\* C12: for values that marshal, DeepEqualJSON returns true, silently,
\* exactly when the values decoded from the two encodings are deep-equal,
\* which is when the two values say the same as JSON, whatever the order of
\* their keys; otherwise it returns false after one report "JSON
\* representations differ" whose diff is that of the two indented JSON texts.
C12_DecidesOnDecodedForms ==
    (Called /\ call.pkg = "assert" /\ call.op = "DeepEqualJSON" /\ MarshalErrors = {}) =>
        /\ ret = "true" <=> reflectDeepEqual(Decoded(call.expected, 100), Decoded(call.actual, 200))
        /\ ret = "true" <=> Content(call.expected) = Content(call.actual)
        /\ ret = "true" => log = <<>>
        /\ ret # "true" =>
              /\ ret = "false"
              /\ Len(log) = 1
              /\ log[1].ev = "Errorf" /\ log[1].t = BoundSink
              /\ BodyOf(log[1].msg, "Error:") = <<"JSON representations differ">>
              /\ HasSection(log[1].msg, "Diff:")
              /\ BodyOf(log[1].msg, "Diff:")
                    = diff(rev, MarshalIndent(call.expected).out, MarshalIndent(call.actual).out)
              /\ HasHunk(BodyOf(log[1].msg, "Diff:"))

\* two objects with the same members, written in different orders, passed
C12_Witness ==
    /\ Called /\ call.pkg = "assert" /\ call.op = "DeepEqualJSON"
    /\ call.expected.kind = "struct" /\ call.actual.kind = "struct"
    /\ MarshalIndent(call.expected).out # MarshalIndent(call.actual).out
    /\ MarshalIndent(call.expected).err = <<>> /\ MarshalIndent(call.actual).err = <<>>
    /\ ret = "true"

\* C13: an assert-form check returns true exactly when it made no Errorf
\* during the call, and a require-form check makes a FailNow exactly when an
\* Errorf was made during the call.
C13_TrueIffSilent ==
    (Called /\ call.op \in Checks) =>
        IF call.pkg = "assert"
        THEN ret = "true" <=> Errorfs = <<>>
        ELSE FailNows # <<>> <=> Errorfs # <<>>

====
